---- MODULE Spec2Model ----
(***************************************************************************)
(* Room-service order agent (src/src/agent.py, src/src/main.py).           *)
(*                                                                         *)
(* Text is modelled character by character: a Python str is a sequence of  *)
(* one-character strings, so that substring tests, regular expressions,    *)
(* normalisation and synonym rewriting are computed as the code computes   *)
(* them.  The only whitespace character of the alphabet is the space.      *)
(***************************************************************************)
EXTENDS Integers, Sequences, FiniteSets, TLC

(***************************************************************************)
(* Python values                                                           *)
(***************************************************************************)
\* Python None (also JSON null)
None == [none |-> TRUE]

\* a JSON / Python integer
IntVal(n) == [int |-> n]

\* a JSON string found where the schema wants a number
StrVal(s) == [str |-> s]

IsInt(v) == DOMAIN v = {"int"}

\* Python truthiness of None / int / str values held in a tagged record
Truthy(v) ==
    IF v = None THEN FALSE
    ELSE IF IsInt(v) THEN v.int # 0
    ELSE v.str # <<>>

\* dict.get(key, default)
Get(d, key, default) == IF key \in DOMAIN d THEN d[key] ELSE default

(***************************************************************************)
(* str primitives                                                          *)
(***************************************************************************)
LowerLetters == <<"a","b","c","d","e","f","g","h","i","j","k","l","m","n","o","p","q","r","s","t","u","v","w","x","y","z">>
UpperLetters == <<"A","B","C","D","E","F","G","H","I","J","K","L","M","N","O","P","Q","R","S","T","U","V","W","X","Y","Z">>
DigitChars == <<"0","1","2","3","4","5","6","7","8","9">>

Range(s) == {s[i] : i \in 1..Len(s)}

IsDigit(c) == c \in Range(DigitChars)

\* \w of the re module, for the ASCII alphabet
IsWordChar(c) == c \in Range(LowerLetters) \cup Range(UpperLetters) \cup Range(DigitChars) \cup {"_"}

LowerChar(c) ==
    IF c \in Range(UpperLetters)
    THEN LowerLetters[CHOOSE i \in 1..Len(UpperLetters) : UpperLetters[i] = c]
    ELSE c

\* str.lower()
Lower(s) == [i \in 1..Len(s) |-> LowerChar(s[i])]

\* s[i:] of Python, 1-based
From(s, i) == SubSeq(s, i, Len(s))

\* s.startswith(sub, i-1)
IsPrefixAt(s, sub, i) ==
    /\ i + Len(sub) - 1 <= Len(s)
    /\ SubSeq(s, i, i + Len(sub) - 1) = sub

\* sub in s
Contains(s, sub) == \E i \in 1..(Len(s) + 1) : IsPrefixAt(s, sub, i)

RECURSIVE LStrip(_)
LStrip(s) == IF s # <<>> /\ Head(s) = " " THEN LStrip(Tail(s)) ELSE s

RECURSIVE RStrip(_)
RStrip(s) == IF s # <<>> /\ s[Len(s)] = " " THEN RStrip(SubSeq(s, 1, Len(s) - 1)) ELSE s

\* str.strip()
Strip(s) == RStrip(LStrip(s))

\* length of the leading run of non-space characters
RECURSIVE WordLen(_)
WordLen(s) == IF s = <<>> \/ Head(s) = " " THEN 0 ELSE 1 + WordLen(Tail(s))

\* str.split(): the whitespace-separated tokens, in order
RECURSIVE Split(_)
Split(s) ==
    LET r == LStrip(s) IN
    IF r = <<>> THEN <<>>
    ELSE <<SubSeq(r, 1, WordLen(r))>> \o Split(From(r, WordLen(r) + 1))

\* str.replace(k, v) for a non-empty k: every non-overlapping occurrence, left to right
RECURSIVE Replace(_, _, _)
Replace(s, k, v) ==
    IF Len(s) < Len(k) THEN s
    ELSE IF IsPrefixAt(s, k, 1) THEN v \o Replace(From(s, Len(k) + 1), k, v)
    ELSE <<Head(s)>> \o Replace(Tail(s), k, v)

\* re.search(r"\b(w1|w2|...)\b", t): every alternative starts and ends with a word character
SearchWord(t, words) ==
    \E w \in words : \E i \in 1..Len(t) :
        /\ IsPrefixAt(t, w, i)
        /\ (i = 1 \/ ~IsWordChar(t[i - 1]))
        /\ (i + Len(w) > Len(t) \/ ~IsWordChar(t[i + Len(w)]))

\* int(digits)
RECURSIVE ParseInt(_)
ParseInt(ds) ==
    IF ds = <<>> THEN 0
    ELSE 10 * ParseInt(SubSeq(ds, 1, Len(ds) - 1))
         + ((CHOOSE i \in 1..Len(DigitChars) : DigitChars[i] = ds[Len(ds)]) - 1)

(***************************************************************************)
(* AgentClient: normalisation, synonyms and matching                       *)
(***************************************************************************)
\* re.sub(r"[^a-z0-9 ]", "", s.lower())
RECURSIVE KeepNormal(_)
KeepNormal(s) ==
    IF s = <<>> THEN <<>>
    ELSE IF Head(s) \in Range(LowerLetters) \cup Range(DigitChars) \cup {" "}
         THEN <<Head(s)>> \o KeepNormal(Tail(s))
         ELSE KeepNormal(Tail(s))

Normalize(s) == KeepNormal(Lower(s))

\* self.synonyms, in insertion (iteration) order
synonyms == <<
    <<<<"f","r","i","e","s">>, <<"F","r","e","n","c","h"," ","F","r","i","e","s">>>>,
    <<<<"c","h","i","p","s">>, <<"F","r","e","n","c","h"," ","F","r","i","e","s">>>>,
    <<<<"l","a","v","a"," ","c","a","k","e">>, <<"C","h","o","c","o","l","a","t","e"," ","L","a","v","a"," ","C","a","k","e">>>>,
    <<<<"c","h","i","c","k","e","n"," ","s","a","n","d","w","i","c","h">>, <<"G","r","i","l","l","e","d"," ","C","h","i","c","k","e","n"," ","S","a","n","d","w","i","c","h">>>>,
    <<<<"c","a","e","s","a","r"," ","s","a","l","a","d">>, <<"V","e","g"," ","C","a","e","s","a","r"," ","S","a","l","a","d">>>>,
    <<<<"s","a","l","a","d">>, <<"V","e","g"," ","C","a","e","s","a","r"," ","S","a","l","a","d">>>> >>

\* the "apply synonyms" loop of match_items, from the n-th entry on
RECURSIVE ApplySynonymsFrom(_, _)
ApplySynonymsFrom(normalized, n) ==
    IF n > Len(synonyms) THEN normalized
    ELSE LET k == synonyms[n][1]
             v == synonyms[n][2]
         IN  IF Contains(normalized, k)
             THEN ApplySynonymsFrom(Replace(normalized, k, Normalize(v)), n + 1)
             ELSE ApplySynonymsFrom(normalized, n + 1)

ApplySynonyms(normalized) == ApplySynonymsFrom(normalized, 1)

\* item.get("id") or item.get("_id") or name
ItemId(item) ==
    LET name == Get(item, "name", <<>>)
        a == Get(item, "id", <<>>)
        b == Get(item, "_id", <<>>)
    IN  IF a # <<>> THEN a ELSE IF b # <<>> THEN b ELSE name

\* item.get("tags", []) or []
ItemTags(item) == Get(item, "tags", <<>>)

\* OrderItem(name=..., tags=..., available=..., prep_time_min=..., menu_id=str(id_)), quantity defaulting to 1
OrderItem(item) ==
    [name |-> Get(item, "name", <<>>),
     quantity |-> 1,
     tags |-> ItemTags(item),
     available |-> Get(item, "available", TRUE),
     prep_time_min |-> Get(item, "prep_time_min", None),
     menu_id |-> ItemId(item)]

\* "exact name contained"
NameMatch(item, normalized) == Contains(normalized, Normalize(Get(item, "name", <<>>)))

\* "token match in name"
TokenMatch(item, normalized) ==
    \E tok \in Range(Split(normalized)) : tok \in Range(Split(Normalize(Get(item, "name", <<>>))))

\* "tag match"
TagMatch(item, normalized) ==
    \E tag \in Range(ItemTags(item)) : tag # <<>> /\ Contains(normalized, tag)

\* what one iteration of the menu loop appends to found
FoundFor(item, normalized) ==
    IF NameMatch(item, normalized) THEN <<OrderItem(item)>>
    ELSE (IF TokenMatch(item, normalized) THEN <<OrderItem(item)>> ELSE <<>>)
         \o (IF TagMatch(item, normalized) THEN <<OrderItem(item)>> ELSE <<>>)

RECURSIVE FoundFrom(_, _, _)
FoundFrom(catalog, normalized, n) ==
    IF n > Len(catalog) THEN <<>>
    ELSE FoundFor(catalog[n], normalized) \o FoundFrom(catalog, normalized, n + 1)

\* o.menu_id or o.name
UniqKey(o) == IF o.menu_id # <<>> THEN o.menu_id ELSE o.name

\* "dedupe by menu_id": a dict keeps the position of a key's first insertion and the value of its last
Dedupe(found) ==
    LET firsts == SelectSeq([i \in 1..Len(found) |-> i],
                            LAMBDA i : \A j \in 1..(i - 1) : UniqKey(found[j]) # UniqKey(found[i]))
        lastOf(i) == CHOOSE j \in 1..Len(found) :
                        /\ UniqKey(found[j]) = UniqKey(found[i])
                        /\ \A l \in (j + 1)..Len(found) : UniqKey(found[l]) # UniqKey(found[i])
    IN  [n \in 1..Len(firsts) |-> found[lastOf(firsts[n])]]

match_items(catalog, text) ==
    IF catalog = <<>> THEN <<>>
    ELSE Dedupe(FoundFrom(catalog, ApplySynonyms(Normalize(text)), 1))

(***************************************************************************)
(* AgentClient.parse                                                       *)
(***************************************************************************)
GreetingWords == {<<"h","i">>, <<"h","e","l","l","o">>, <<"h","e","y">>, <<"g","o","o","d"," ","m","o","r","n","i","n","g">>, <<"g","o","o","d"," ","e","v","e","n","i","n","g">>}

CancelWords == {<<"c","a","n","c","e","l">>, <<"n","e","v","e","r"," ","m","i","n","d">>, <<"s","t","o","p">>, <<"d","o","n","'","t">>}

ConfirmWords == {<<"y","e","s">>, <<"y","e","p">>, <<"c","o","n","f","i","r","m">>, <<"p","l","e","a","s","e">>, <<"s","u","r","e">>, <<"o","k">>}

PreferenceTriggers ==
    {<<"v","e","g","e","t","a","r","i","a","n">>, <<"v","e","g","a","n">>, <<"n","o"," ","o","n","i","o","n">>, <<"n","o"," ","d","a","i","r","y">>, <<"d","a","i","r","y","-","f","r","e","e">>, <<"n","u","t"," ","a","l","l","e","r","g","y">>}

OrderVerbs ==
    {<<"o","r","d","e","r">>, <<"i"," ","w","a","n","t">>, <<"i","'","d"," ","l","i","k","e">>, <<"g","e","t"," ","m","e">>, <<"b","r","i","n","g"," ","m","e">>, <<"p","l","e","a","s","e"," ","g","e","t">>, <<"i"," ","n","e","e","d">>}

\* the dietary list of the "set preferences" rule
Dietary(t) ==
    (IF Contains(t, <<"v","e","g","e","t","a","r","i","a","n">>) \/ Contains(t, <<"v","e","g","a","n">>) THEN <<"vegetarian">> ELSE <<>>)
    \o (IF Contains(t, <<"n","o"," ","o","n","i","o","n">>) THEN <<"no_onion">> ELSE <<>>)
    \o (IF Contains(t, <<"n","o"," ","d","a","i","r","y">>) \/ Contains(t, <<"d","a","i","r","y","-","f","r","e","e">>) THEN <<"no_dairy">> ELSE <<>>)
    \o (IF Contains(t, <<"n","u","t">>) THEN <<"no_nuts">> ELSE <<>>)

\* position of the first digit of t, 0 if there is none
FirstDigit(t) ==
    IF \E i \in 1..Len(t) : IsDigit(t[i])
    THEN CHOOSE i \in 1..Len(t) : IsDigit(t[i]) /\ \A j \in 1..(i - 1) : ~IsDigit(t[j])
    ELSE 0

\* last position of the run of digits that starts at i
RECURSIVE DigitRunEnd(_, _)
DigitRunEnd(t, i) == IF i < Len(t) /\ IsDigit(t[i + 1]) THEN DigitRunEnd(t, i + 1) ELSE i

\* the optional unit (?:x|pcs|pieces)? and the \s* after it, on r (which starts with no space):
\* the unit is consumed only if something is left for (.+)
AfterUnit(r) ==
    LET units == <<<<"x">>, <<"p","c","s">>, <<"p","i","e","c","e","s">>>>
        hit == {n \in 1..Len(units) : IsPrefixAt(r, units[n], 1)
                                       /\ LStrip(From(r, Len(units[n]) + 1)) # <<>>}
    IN  IF hit = {} THEN r
        ELSE LET n == CHOOSE m \in hit : \A l \in hit : m <= l
             IN  LStrip(From(r, Len(units[n]) + 1))

\* re.search(r"(\d+)\s*(?:x|pcs|pieces)?\s*(.+)", t) on a stripped t:
\* None, or the groups (1) and (2) of the leftmost match
QtyMatch(t) ==
    LET i == FirstDigit(t)
        j == DigitRunEnd(t, i)
    IN  IF i = 0 THEN None
        ELSE IF j = Len(t)
             THEN IF j = i THEN None
                  ELSE [digits |-> SubSeq(t, i, j - 1), rest |-> SubSeq(t, j, j)]
             ELSE [digits |-> SubSeq(t, i, j), rest |-> AfterUnit(LStrip(From(t, j + 1)))]

\* for m in matches: m.quantity = qty
WithQuantity(matches, qty) == [n \in 1..Len(matches) |-> [matches[n] EXCEPT !.quantity = qty]]

Parsed(intent, items, dietary) == [intent |-> intent, items |-> items, dietary |-> dietary]

\* parse with the cancel rule tried before the greeting rule
parse_cancel_first(catalog, text) ==
    LET t == Lower(Strip(text))
        qty_match == QtyMatch(t)
        qmatches == IF qty_match = None THEN <<>>
                    ELSE WithQuantity(match_items(catalog, qty_match.rest), ParseInt(qty_match.digits))
        matches == match_items(catalog, text)
    IN  IF SearchWord(t, CancelWords) THEN Parsed("cancel", <<>>, <<>>)
        ELSE IF SearchWord(t, GreetingWords) THEN Parsed("greeting", <<>>, <<>>)
        ELSE IF t \in ConfirmWords THEN Parsed("confirm", <<>>, <<>>)
        ELSE IF \E k \in PreferenceTriggers : Contains(t, k)
             THEN Parsed("set_preference", <<>>, Dietary(t))
        ELSE IF qmatches # <<>> THEN Parsed("order_food", qmatches, <<>>)
        ELSE IF SearchWord(t, OrderVerbs) \/ Len(Split(t)) <= 3
             THEN IF matches # <<>> THEN Parsed("order_food", matches, <<>>)
                  ELSE Parsed("clarify", <<>>, <<>>)
        ELSE Parsed("unknown", <<>>, <<>>)

parse(catalog, text) ==
    LET t == Lower(Strip(text))
        qty_match == QtyMatch(t)
        qmatches == IF qty_match = None THEN <<>>
                    ELSE WithQuantity(match_items(catalog, qty_match.rest), ParseInt(qty_match.digits))
        matches == match_items(catalog, text)
    IN  IF SearchWord(t, GreetingWords) THEN Parsed("greeting", <<>>, <<>>)
        ELSE IF SearchWord(t, CancelWords) THEN Parsed("cancel", <<>>, <<>>)
        ELSE IF t \in ConfirmWords THEN Parsed("confirm", <<>>, <<>>)
        ELSE IF \E k \in PreferenceTriggers : Contains(t, k)
             THEN Parsed("set_preference", <<>>, Dietary(t))
        ELSE IF qmatches # <<>> THEN Parsed("order_food", qmatches, <<>>)
        ELSE IF SearchWord(t, OrderVerbs) \/ Len(Split(t)) <= 3
             THEN IF matches # <<>> THEN Parsed("order_food", matches, <<>>)
                  ELSE Parsed("clarify", <<>>, <<>>)
        ELSE Parsed("unknown", <<>>, <<>>)

(***************************************************************************)
(* Inputs: catalogs the loader returns, and the requests clients send      *)
(***************************************************************************)
Fries ==
    [id |-> <<"1">>, name |-> <<"F","r","e","n","c","h"," ","F","r","i","e","s">>, tags |-> <<>>, available |-> TRUE,
     prep_time_min |-> IntVal(10)]

ChickenSandwich ==
    [id |-> <<"2">>, name |-> <<"G","r","i","l","l","e","d"," ","C","h","i","c","k","e","n"," ","S","a","n","d","w","i","c","h">>, tags |-> <<<<"c","h","i","c","k","e","n">>>>,
     available |-> TRUE, prep_time_min |-> IntVal(15)]

\* out of stock, and no prep_time_min
CaesarSalad ==
    [id |-> <<"3">>, name |-> <<"V","e","g"," ","C","a","e","s","a","r"," ","S","a","l","a","d">>, tags |-> <<<<"v","e","g">>>>, available |-> FALSE]

\* neither id nor prep_time_min: "each with at least name"
Tea == [name |-> <<"T","e","a">>]

\* a record whose prep_time_min is a JSON string: json.load returns it as it is
TeaStringPrep == [name |-> <<"T","e","a">>, prep_time_min |-> StrVal(<<"5">>)]

\* catalogs whose records follow the catalog schema (the empty one: no menu file)
Catalogs == {<<>>, <<Fries, ChickenSandwich, CaesarSalad, Tea>>}

\* _load_menu returns whatever json.load produced: records are not validated
LoaderCatalogs == Catalogs \cup {<<Fries, TeaStringPrep>>}

\* a second record with the id of Fries
FishFries ==
    [id |-> <<"1">>, name |-> <<"F","i","s","h"," ","F","r","i","e","s">>, tags |-> <<<<"f","i","s","h">>>>, available |-> TRUE,
     prep_time_min |-> IntVal(12)]

\* a file of the data directory: not there, there but not JSON, or holding JSON data
Absent == [exists |-> FALSE]

Malformed == [exists |-> TRUE, valid |-> FALSE]

JsonFile(data) == [exists |-> TRUE, valid |-> TRUE, data |-> data]

\* AgentClient._load_menu on a data directory holding menu.json and data.json
load_menu(dir) ==
    LET chosen == IF dir.menu_json.exists THEN dir.menu_json
                  ELSE IF dir.data_json.exists THEN dir.data_json
                  ELSE None
    IN  IF chosen # None /\ chosen.valid THEN chosen.data ELSE <<>>

\* the data directories explored: no file, a broken menu.json beside a good data.json,
\* a schema-conforming menu.json, and a data.json in which two records carry one id
DataDirs ==
    {[menu_json |-> Absent, data_json |-> Absent],
     [menu_json |-> Malformed, data_json |-> JsonFile(<<Fries, Tea>>)],
     [menu_json |-> JsonFile(<<Fries, ChickenSandwich, CaesarSalad, Tea>>), data_json |-> Absent],
     [menu_json |-> Absent, data_json |-> JsonFile(<<Fries, Tea, FishFries>>)]}

Messages ==
    {<<"h","i">>, <<"c","a","n","c","e","l">>, <<"y","e","s">>, <<"i"," ","a","m"," ","v","e","g","a","n">>, <<"n","o"," ","o","n","i","o","n"," ","p","l","e","a","s","e">>,
     <<"2"," ","x"," ","f","r","i","e","s">>, <<"0"," ","f","r","i","e","s">>, <<"c","h","i","c","k","e","n"," ","s","a","n","d","w","i","c","h">>, <<"s","a","l","a","d">>,
     <<"c","h","i","c","k","e","n"," ","s","a","n","d","w","i","c","h",","," ","s","a","l","a","d">>, <<"3"," ","f","r","i","e","s",","," ","t","e","a",","," ","c","h","i","c","k","e","n"," ","s","a","n","d","w","i","c","h">>,
     <<"x","y","z","z","y">>, <<"w","h","a","t"," ","i","s"," ","o","n"," ","t","h","e"," ","m","e","n","u"," ","t","o","d","a","y">>}

\* parse, evaluated once for every catalog and message the model uses
ParseTable == {<<c, m, parse(c, m)>> : c \in LoaderCatalogs, m \in Messages}

\* self.parse(text) on self.menu = catalog
Parse(catalog, text) ==
    IF \E e \in ParseTable : e[1] = catalog /\ e[2] = text
    THEN (CHOOSE e \in ParseTable : e[1] = catalog /\ e[2] = text)[3]
    ELSE parse(catalog, text)

(***************************************************************************)
(* Sessions and AgentClient.run                                            *)
(*                                                                         *)
(* A dict is a function on its keys; a key that is absent from a           *)
(* ChatRequest / ChatResponse stands for a field that is None.             *)
(***************************************************************************)
\* {"preferences": {}, "pending": None, "history": []}
NewContext == [preferences |-> <<>>, pending |-> None, history |-> <<>>]

\* f"guest-{int(time.time())}"
GuestId(seconds) == "guest-" \o ToString(seconds)

\* "if not session_id": the field is None or the empty string
NoSessionId(request) == Get(request, "session_id", "") = ""

\* the identifier _load_session returns
SessionIdOf(request, seconds) ==
    IF NoSessionId(request) THEN GuestId(seconds) ELSE request.session_id

\* a variant that builds a new context on every reference
load_session_fresh(store, session_id) ==
    (session_id :> NewContext) @@ store

\* the session store after _load_session
load_session(store, session_id) ==
    IF session_id \in DOMAIN store THEN store ELSE (session_id :> NewContext) @@ store

\* a variant that rebuilds the mapping from the tags of this turn alone
RECURSIVE SetPreferences_overwrite(_, _)
SetPreferences_overwrite(prefs, dietary) ==
    IF dietary = <<>> THEN <<>>
    ELSE (Head(dietary) :> TRUE) @@ SetPreferences_overwrite(prefs, Tail(dietary))

\* for p in parsed["dietary"]: ctx["preferences"][p] = True
RECURSIVE SetPreferences(_, _)
SetPreferences(prefs, dietary) ==
    IF dietary = <<>> THEN prefs
    ELSE SetPreferences((Head(dietary) :> TRUE) @@ prefs, Tail(dietary))

ForbiddenTags == {<<"n","o","n","-","v","e","g">>, <<"c","h","i","c","k","e","n">>, <<"b","e","e","f">>, <<"p","o","r","k">>, <<"f","i","s","h">>, <<"e","g","g">>}

\* the test that appends o to conflicts
IsConflict(prefs, o) ==
    /\ Get(prefs, "vegetarian", FALSE)
    /\ \E t \in Range(o.tags) : t \in ForbiddenTags

conflicts_of(prefs, items) == SelectSeq(items, LAMBDA o : IsConflict(prefs, o))

unavailable_of(items) == SelectSeq(items, LAMBDA o : ~o.available)

\* o.prep_time_min or 0
PrepOrZero(o) == IF Truthy(o.prep_time_min) THEN o.prep_time_min ELSE IntVal(0)

\* sum() raises TypeError on an element that is not a number
EtaRaises(items) == \E n \in 1..Len(items) : ~IsInt(PrepOrZero(items[n]))

\* a variant that charges the preparation time once per unit ordered
RECURSIVE Eta_per_unit(_)
Eta_per_unit(items) ==
    IF items = <<>> THEN 0
    ELSE Head(items).quantity * PrepOrZero(Head(items)).int + Eta_per_unit(Tail(items))

\* sum([o.prep_time_min or 0 for o in items])
RECURSIVE Eta(_)
Eta(items) == IF items = <<>> THEN 0 ELSE PrepOrZero(Head(items)).int + Eta(Tail(items))

names_of(items) == [n \in 1..Len(items) |-> items[n].name]

\* [f"{i.quantity} x {i.name}" for i in items]
item_names_of(items) == [n \in 1..Len(items) |-> <<items[n].quantity, items[n].name>>]

\* what run raises instead of returning
Raised == [raised |-> TRUE]

\* ChatResponse(session_id=..., reply=..., intent=...)
ChatResponse(session_id, reply, intent) ==
    [session_id |-> session_id, reply |-> reply, intent |-> intent]

\* a greeting that drops the pending order
run_greeting_clears_pending(ctx, session_id) ==
    [ctx |-> [ctx EXCEPT !.pending = None],
     out |-> ChatResponse(session_id, [text |-> "Hello! How can I help with room service today?"],
                          "greeting")]

\* run, "greeting"
run_greeting(ctx, session_id) ==
    [ctx |-> ctx,
     out |-> ChatResponse(session_id, [text |-> "Hello! How can I help with room service today?"],
                          "greeting")]

\* run, "set preferences"
run_set_preference(ctx, parsed, session_id) ==
    LET c1 == [ctx EXCEPT !.preferences = SetPreferences(@, parsed.dietary)] IN
    [ctx |-> c1,
     out |-> ChatResponse(session_id,
                          [text |-> "Saved preferences: {}", dietary |-> parsed.dietary],
                          "set_preference")
             @@ [context |-> [preferences |-> c1.preferences]]]

\* a variant that acknowledges a cancellation only when an order was pending
run_cancel_if_pending(ctx, session_id) ==
    IF ctx.pending # None
    THEN [ctx |-> [ctx EXCEPT !.pending = None],
          out |-> ChatResponse(session_id, [text |-> "Cancelled your pending request."], "cancel")]
    ELSE [ctx |-> ctx,
          out |-> ChatResponse(session_id, [text |-> "Nothing to cancel."], "cancel")]

\* a variant that also withdraws the order placed last
run_cancel_pops_history(ctx, session_id) ==
    [ctx |-> [ctx EXCEPT !.pending = None,
                         !.history = IF @ = <<>> THEN @ ELSE SubSeq(@, 1, Len(@) - 1)],
     out |-> ChatResponse(session_id, [text |-> "Cancelled your pending request."], "cancel")]

\* run, "cancel"
run_cancel(ctx, session_id) ==
    [ctx |-> [ctx EXCEPT !.pending = None],
     out |-> ChatResponse(session_id, [text |-> "Cancelled your pending request."], "cancel")]

\* a variant that places the order but leaves it pending
run_confirm_keeps_pending(ctx, session_id) ==
    IF ctx.pending # None THEN
        LET c1 == [ctx EXCEPT !.history = Append(@, ctx.pending)] IN
        [ctx |-> c1,
         out |-> ChatResponse(session_id, [text |-> "Order placed. Thank you!"], "confirm")
                 @@ [context |-> [history |-> c1.history]]]
    ELSE
        [ctx |-> ctx,
         out |-> ChatResponse(session_id, [text |-> "Nothing to confirm."], "confirm")]

\* a variant that appends without testing whether an order is pending
run_confirm_unchecked(ctx, session_id) ==
    LET c1 == [ctx EXCEPT !.history = Append(@, ctx.pending), !.pending = None] IN
    [ctx |-> c1,
     out |-> ChatResponse(session_id, [text |-> "Order placed. Thank you!"], "confirm")
             @@ [context |-> [history |-> c1.history]]]

\* run, "confirm -> if pending order exists, place it"
run_confirm(ctx, session_id) ==
    IF ctx.pending # None THEN
        LET c1 == [ctx EXCEPT !.history = Append(@, ctx.pending), !.pending = None] IN
        [ctx |-> c1,
         out |-> ChatResponse(session_id, [text |-> "Order placed. Thank you!"], "confirm")
                 @@ [context |-> [history |-> c1.history]]]
    ELSE
        [ctx |-> ctx,
         out |-> ChatResponse(session_id, [text |-> "Nothing to confirm."], "confirm")]

\* a variant that tests availability before dietary conflicts
order_outcome_availability_first(ctx, items, conflicts, unavailable, session_id) ==
    IF items = <<>> THEN
        [ctx |-> ctx,
         out |-> ChatResponse(session_id,
                              [text |-> "I couldn't find that item. Can you name it differently?"],
                              "clarify")
                 @@ [suggested_actions |-> <<"provide_item_name">>]]
    ELSE IF unavailable # <<>> THEN
        [ctx |-> [ctx EXCEPT !.pending = [items |-> items]],
         out |-> ChatResponse(session_id,
                              [text |-> "Sorry, these are currently unavailable: {}. Would you like alternatives?",
                               names |-> names_of(unavailable)],
                              "clarify")
                 @@ [suggested_actions |-> <<"offer_alternatives">>,
                     context |-> [unavailable |-> unavailable]]]
    ELSE IF conflicts # <<>> THEN
        [ctx |-> [ctx EXCEPT !.pending = [items |-> items]],
         out |-> ChatResponse(session_id,
                              [text |-> "These items conflict with your dietary preferences: {}. Replace or remove?",
                               names |-> names_of(conflicts)],
                              "confirm")
                 @@ [suggested_actions |-> <<"replace_item", "remove_item">>,
                     context |-> [conflicts |-> conflicts]]]
    ELSE IF EtaRaises(items) THEN
        [ctx |-> ctx, out |-> Raised]
    ELSE
        LET c1 == [ctx EXCEPT !.pending = [items |-> items, eta_min |-> Eta(items)]] IN
        [ctx |-> c1,
         out |-> ChatResponse(session_id,
                              [text |-> "Confirming: {}. ETA ~{} minutes. Shall I place the order?",
                               item_names |-> item_names_of(items),
                               eta |-> Eta(items)],
                              "confirm_request")
                 @@ [suggested_actions |-> <<"confirm", "modify", "cancel">>,
                     context |-> [pending |-> c1.pending]]]

\* a variant that adds the new items to an order that is still pending
order_outcome_merges(ctx, items, conflicts, unavailable, session_id) ==
    LET merged == IF ctx.pending # None THEN ctx.pending.items \o items ELSE items IN
        IF items = <<>> THEN
            [ctx |-> ctx,
             out |-> ChatResponse(session_id,
                                  [text |-> "I couldn't find that item. Can you name it differently?"],
                                  "clarify")
                     @@ [suggested_actions |-> <<"provide_item_name">>]]
        ELSE IF conflicts # <<>> THEN
            [ctx |-> [ctx EXCEPT !.pending = [items |-> merged]],
             out |-> ChatResponse(session_id,
                                  [text |-> "These items conflict with your dietary preferences: {}. Replace or remove?",
                                   names |-> names_of(conflicts)],
                                  "confirm")
                     @@ [suggested_actions |-> <<"replace_item", "remove_item">>,
                         context |-> [conflicts |-> conflicts]]]
        ELSE IF unavailable # <<>> THEN
            [ctx |-> [ctx EXCEPT !.pending = [items |-> merged]],
             out |-> ChatResponse(session_id,
                                  [text |-> "Sorry, these are currently unavailable: {}. Would you like alternatives?",
                                   names |-> names_of(unavailable)],
                                  "clarify")
                     @@ [suggested_actions |-> <<"offer_alternatives">>,
                         context |-> [unavailable |-> unavailable]]]
        ELSE IF EtaRaises(items) THEN
            [ctx |-> ctx, out |-> Raised]
        ELSE
            LET c1 == [ctx EXCEPT !.pending = [items |-> merged, eta_min |-> Eta(items)]] IN
            [ctx |-> c1,
             out |-> ChatResponse(session_id,
                                  [text |-> "Confirming: {}. ETA ~{} minutes. Shall I place the order?",
                                   item_names |-> item_names_of(items),
                                   eta |-> Eta(items)],
                                  "confirm_request")
                     @@ [suggested_actions |-> <<"confirm", "modify", "cancel">>,
                         context |-> [pending |-> c1.pending]]]

\* run, "order flow" after the preference and availability loop: the branch on conflicts / unavailable
order_outcome(ctx, items, conflicts, unavailable, session_id) ==
    IF items = <<>> THEN
        [ctx |-> ctx,
         out |-> ChatResponse(session_id,
                              [text |-> "I couldn't find that item. Can you name it differently?"],
                              "clarify")
                 @@ [suggested_actions |-> <<"provide_item_name">>]]
    ELSE IF conflicts # <<>> THEN
        [ctx |-> [ctx EXCEPT !.pending = [items |-> items]],
         out |-> ChatResponse(session_id,
                              [text |-> "These items conflict with your dietary preferences: {}. Replace or remove?",
                               names |-> names_of(conflicts)],
                              "confirm")
                 @@ [suggested_actions |-> <<"replace_item", "remove_item">>,
                     context |-> [conflicts |-> conflicts]]]
    ELSE IF unavailable # <<>> THEN
        [ctx |-> [ctx EXCEPT !.pending = [items |-> items]],
         out |-> ChatResponse(session_id,
                              [text |-> "Sorry, these are currently unavailable: {}. Would you like alternatives?",
                               names |-> names_of(unavailable)],
                              "clarify")
                 @@ [suggested_actions |-> <<"offer_alternatives">>,
                     context |-> [unavailable |-> unavailable]]]
    ELSE IF EtaRaises(items) THEN
        [ctx |-> ctx, out |-> Raised]
    ELSE
        LET c1 == [ctx EXCEPT !.pending = [items |-> items, eta_min |-> Eta(items)]] IN
        [ctx |-> c1,
         out |-> ChatResponse(session_id,
                              [text |-> "Confirming: {}. ETA ~{} minutes. Shall I place the order?",
                               item_names |-> item_names_of(items),
                               eta |-> Eta(items)],
                              "confirm_request")
                 @@ [suggested_actions |-> <<"confirm", "modify", "cancel">>,
                     context |-> [pending |-> c1.pending]]]

\* run, "order flow": "check preferences and availability", then the branch
run_order_food(ctx, parsed, session_id) ==
    order_outcome(ctx, parsed.items, conflicts_of(ctx.preferences, parsed.items),
                  unavailable_of(parsed.items), session_id)

\* run, "clarify or unknown"
run_clarify(ctx, session_id) ==
    [ctx |-> ctx,
     out |-> ChatResponse(session_id,
                          [text |-> "I didn't understand - can you specify the dish name (e.g., 'Grilled Chicken Sandwich')?"],
                          "clarify")
             @@ [suggested_actions |-> <<"provide_item_name">>]]

\* run, "fallback"
run_fallback(ctx, session_id) ==
    [ctx |-> ctx,
     out |-> ChatResponse(session_id, [text |-> "Sorry, I couldn't process that."], "error")]

\* the body of run after _load_session and parse: the context as mutated in place, and the ChatResponse
RunCtx(ctx, parsed, session_id) ==
    IF parsed.intent = "greeting" THEN run_greeting(ctx, session_id)
    ELSE IF parsed.intent = "set_preference" THEN run_set_preference(ctx, parsed, session_id)
    ELSE IF parsed.intent = "cancel" THEN run_cancel(ctx, session_id)
    ELSE IF parsed.intent = "confirm" THEN run_confirm(ctx, session_id)
    ELSE IF parsed.intent = "order_food" THEN run_order_food(ctx, parsed, session_id)
    ELSE IF parsed.intent \in {"clarify", "unknown"} THEN run_clarify(ctx, session_id)
    ELSE run_fallback(ctx, session_id)

\* AgentClient.run on a whole request: the session store afterwards and the ChatResponse (or Raised)
run(store, catalog, seconds, request) ==
    LET session_id == SessionIdOf(request, seconds)
        loaded == load_session(store, session_id)
        parsed == Parse(catalog, request.message)
        r == RunCtx(loaded[session_id], parsed, session_id)
    IN  [store |-> [loaded EXCEPT ![session_id] = r.ctx], out |-> r.out]

\* chat_endpoint: the ChatResponse with status 200, or HTTP 500 when run_agent raises
chat_endpoint(store, catalog, seconds, request) ==
    LET r == run(store, catalog, seconds, request) IN
    [store |-> r.store,
     response |-> IF r.out = Raised THEN [status |-> 500, detail |-> "Internal server error"]
                  ELSE [status |-> 200, body |-> r.out]]

(***************************************************************************)
(* Requests and bounds                                                     *)
(***************************************************************************)
\* session_id values clients send; a request without the field carries None
SessionIds == {"s1"}

Requests ==
    {[message |-> m] : m \in Messages}
    \cup {[session_id |-> s, message |-> m] : s \in SessionIds, m \in Messages}

\* number of chat turns explored
MaxTurns == 3

\* int(time.time()) runs from 1 to MaxClock
MaxClock == 2

(***************************************************************************)
(* State                                                                   *)
(***************************************************************************)
VARIABLES
    menu,       \* self.menu
    sessions,   \* self.sessions: session_id -> context
    now,        \* int(time.time())
    turns,      \* requests served so far
    last,       \* the last turn: request, resolved session, parse result, context before, response
    objects,    \* threaded server: the context dicts by identity (reference -> value)
    table,      \* threaded server: self.sessions, session_id -> reference
    threads,    \* threaded server: each worker thread's position in run and its locals
    base,       \* threaded server: the session's context when the two requests in flight arrived
    rounds,     \* threaded server: pairs of requests submitted so far
    utterance,  \* the matcher and the parser on their own: the text given to them
    matched,    \* the matcher on its own: self.match_items(text)
    understood, \* the parser on its own: self.parse(text)
    pieces      \* the matcher and the parser on their own: pieces the text was built from

\* a server that handles one request at a time
seqvars == <<sessions, now, turns, last>>

\* a server whose thread pool runs two requests at once
concvars == <<objects, table, threads, base, rounds>>

\* match_items and parse called directly
textvars == <<utterance, matched, understood, pieces>>

vars == <<menu, sessions, now, turns, last, objects, table, threads, base, rounds, utterance, matched, understood, pieces>>

\* the context a session_id stands for: the stored one, or the one _load_session would create
CtxOf(store, session_id) ==
    IF session_id \in DOMAIN store THEN store[session_id] ELSE NewContext

NoTurn == [none |-> TRUE]

\* the worker threads of the pool that runs chat_endpoint
Threads == {1, 2}

\* a worker with no request
Idle == [pc |-> "idle"]

InitWith(catalogs) ==
    /\ menu \in catalogs
    /\ sessions = <<>>
    /\ now = 1
    /\ turns = 0
    /\ last = NoTurn
    /\ objects = <<>>
    /\ table = <<>>
    /\ threads = [t \in Threads |-> Idle]
    /\ base = NewContext
    /\ rounds = 0
    /\ utterance = <<>>
    /\ matched = match_items(menu, utterance)
    /\ understood = parse(menu, utterance)
    /\ pieces = 0

\* after AgentClient() with a schema-conforming menu file (or none)
Init == InitWith(Catalogs)

\* after AgentClient() with any menu file json.load accepts
InitUnvalidated == InitWith(LoaderCatalogs)

\* POST /chat: chat_endpoint -> run_agent -> client.run, as one turn
Chat(request) ==
    /\ turns < MaxTurns
    /\ LET session_id == SessionIdOf(request, now)
           r == chat_endpoint(sessions, menu, now, request)
       IN  /\ sessions' = r.store
           /\ last' = [request |-> request,
                       session_id |-> session_id,
                       existed |-> session_id \in DOMAIN sessions,
                       parsed |-> Parse(menu, request.message),
                       before |-> CtxOf(sessions, session_id),
                       response |-> r.response]
    /\ turns' = turns + 1
    /\ UNCHANGED <<menu, now>>
    /\ UNCHANGED concvars
    /\ UNCHANGED textvars

\* a second of wall-clock time passes
Tick ==
    /\ now < MaxClock
    /\ now' = now + 1
    /\ UNCHANGED <<menu, sessions, turns, last>>
    /\ UNCHANGED concvars
    /\ UNCHANGED textvars

Next ==
    \/ \E request \in Requests : Chat(request)
    \/ Tick

Spec == Init /\ [][Next]_vars

SpecUnvalidated == InitUnvalidated /\ [][Next]_vars

(***************************************************************************)
(* The matcher and the parser on their own: a text is built piece by       *)
(* piece, and match_items or parse is applied to every text so built, on   *)
(* every menu _load_menu can return.                                       *)
(***************************************************************************)
\* pieces a text is built from
MaxPieces == 3

MatchPieces == {<<"x">>, <<"f","r","i","e","s">>, <<"a","l","a","d">>, <<" ">>, <<"t","e","a">>, <<"c","h","i","c","k","e","n">>, <<"c","a","e","s","a","r"," ","s","a","l","a","d">>}

ParsePieces ==
    {<<"h","i">>, <<" ","c","a","n","c","e","l">>, <<"Y","E","S">>, <<" ","v","e","g","a","n">>, <<" ","d","o","n","u","t">>, <<" ","n","u","t"," ","a","l","l","e","r","g","y">>,
     <<"2"," ">>, <<"f","r","i","e","s">>, <<"i"," ","w","a","n","t"," ">>, <<"w","h","a","t"," ","i","s"," ","o","n"," ","t","h","e"," ","m","e","n","u">>}

\* after AgentClient() on any of the data directories
InitLoaded == InitWith({load_menu(dir) : dir \in DataDirs})

\* self.match_items(text) on the text grown by the piece w
UtterMatch(w) ==
    /\ pieces < MaxPieces
    /\ pieces' = pieces + 1
    /\ utterance' = utterance \o w
    /\ matched' = match_items(menu, utterance')
    /\ UNCHANGED <<menu, understood>>
    /\ UNCHANGED seqvars
    /\ UNCHANGED concvars

NextMatch == \E w \in MatchPieces : UtterMatch(w)

SpecMatch == InitLoaded /\ [][NextMatch]_vars

\* self.parse(text) on the text grown by the piece w
UtterParse(w) ==
    /\ pieces < MaxPieces
    /\ pieces' = pieces + 1
    /\ utterance' = utterance \o w
    /\ understood' = parse(menu, utterance')
    /\ UNCHANGED <<menu, matched>>
    /\ UNCHANGED seqvars
    /\ UNCHANGED concvars

NextParse == \E w \in ParsePieces : UtterParse(w)

SpecParse == InitLoaded /\ [][NextParse]_vars

(***************************************************************************)
(* The threaded server: chat_endpoint is a plain "def", so the framework   *)
(* runs each request on a worker thread and two calls of client.run can    *)
(* interleave between any two accesses to self.sessions or to a context.   *)
(* run takes no lock.  A step below is one such access with the local      *)
(* computation that leads to it.                                           *)
(***************************************************************************)
\* the session both requests name
ConcSession == "s1"

\* the messages of concurrent requests
ConcMessages == {<<"h","i">>, <<"y","e","s">>, <<"c","a","n","c","e","l">>, <<"i"," ","a","m"," ","v","e","g","a","n">>, <<"2"," ","x"," ","f","r","i","e","s">>, <<"c","h","i","c","k","e","n"," ","s","a","n","d","w","i","c","h">>}

\* pairs of concurrent requests explored
MaxRounds == 2

\* a worker that has just received request.message = m
Start(m) ==
    [pc |-> "load_check", message |-> m, ctx |-> 0, parsed |-> NoTurn, order |-> None,
     i |-> 1, conflicts |-> <<>>, out |-> None]

\* the context object a worker holds in its local ctx
Obj(t) == objects[threads[t].ctx]

\* two requests for the same session arrive together
Submit(m1, m2) ==
    /\ rounds < MaxRounds
    /\ \A t \in Threads : threads[t].pc \in {"idle", "done"}
    /\ threads' = [t \in Threads |-> Start(IF t = 1 THEN m1 ELSE m2)]
    /\ base' = IF ConcSession \in DOMAIN table THEN objects[table[ConcSession]] ELSE NewContext
    /\ rounds' = rounds + 1
    /\ UNCHANGED <<menu, objects, table>>
    /\ UNCHANGED seqvars
    /\ UNCHANGED textvars

\* _load_session: "if session_id not in self.sessions"
LoadCheck(t) ==
    /\ threads[t].pc = "load_check"
    /\ threads' = [threads EXCEPT ![t].pc =
                      IF ConcSession \in DOMAIN table THEN "load_get" ELSE "load_create"]
    /\ UNCHANGED <<menu, objects, table, base, rounds>>
    /\ UNCHANGED seqvars
    /\ UNCHANGED textvars

\* _load_session: self.sessions[session_id] = {"preferences": {}, "pending": None, "history": []}
LoadCreate(t) ==
    /\ threads[t].pc = "load_create"
    /\ objects' = Append(objects, NewContext)
    /\ table' = (ConcSession :> Len(objects) + 1) @@ table
    /\ threads' = [threads EXCEPT ![t].pc = "load_get"]
    /\ UNCHANGED <<menu, base, rounds>>
    /\ UNCHANGED seqvars
    /\ UNCHANGED textvars

\* _load_session: return session_id, self.sessions[session_id]; then parse, and the branches
\* of run that touch no shared state
LoadGet(t) ==
    /\ threads[t].pc = "load_get"
    /\ LET ref == table[ConcSession]
           parsed == Parse(menu, threads[t].message)
           stepwise == \/ parsed.intent \in {"set_preference", "cancel", "confirm"}
                       \/ parsed.intent = "order_food" /\ parsed.items # <<>>
           pc == IF parsed.intent = "set_preference"
                     THEN IF parsed.dietary = <<>> THEN "save" ELSE "pref_set"
                 ELSE IF parsed.intent = "cancel" THEN "cancel_write"
                 ELSE IF parsed.intent = "confirm" THEN "confirm_check"
                 ELSE IF stepwise THEN "order_scan"
                 ELSE "done"
       IN  threads' = [threads EXCEPT ![t] =
                          [@ EXCEPT !.ctx = ref, !.parsed = parsed, !.pc = pc,
                                    !.out = IF stepwise THEN None
                                            ELSE RunCtx(objects[ref], parsed, ConcSession).out]]
    /\ UNCHANGED <<menu, objects, table, base, rounds>>
    /\ UNCHANGED seqvars
    /\ UNCHANGED textvars

\* ctx["preferences"][p] = True, one tag per step
PrefSet(t) ==
    /\ threads[t].pc = "pref_set"
    /\ LET dietary == threads[t].parsed.dietary
           n == threads[t].i
       IN  /\ objects' = [objects EXCEPT ![threads[t].ctx].preferences = (dietary[n] :> TRUE) @@ @]
           /\ threads' = [threads EXCEPT ![t].i = n + 1,
                                         ![t].pc = IF n = Len(dietary) THEN "save" ELSE "pref_set"]
    /\ UNCHANGED <<menu, table, base, rounds>>
    /\ UNCHANGED seqvars
    /\ UNCHANGED textvars

\* cancel: ctx["pending"] = None
CancelWrite(t) ==
    /\ threads[t].pc = "cancel_write"
    /\ objects' = [objects EXCEPT ![threads[t].ctx].pending = None]
    /\ threads' = [threads EXCEPT ![t].pc = "save"]
    /\ UNCHANGED <<menu, table, base, rounds>>
    /\ UNCHANGED seqvars
    /\ UNCHANGED textvars

\* confirm: if ctx.get("pending")
ConfirmCheck(t) ==
    /\ threads[t].pc = "confirm_check"
    /\ threads' = [threads EXCEPT ![t] =
                      IF Obj(t).pending # None
                      THEN [@ EXCEPT !.pc = "confirm_read"]
                      ELSE [@ EXCEPT !.pc = "done", !.out = run_confirm(Obj(t), ConcSession).out]]
    /\ UNCHANGED <<menu, objects, table, base, rounds>>
    /\ UNCHANGED seqvars
    /\ UNCHANGED textvars

\* confirm: order = ctx["pending"]
ConfirmRead(t) ==
    /\ threads[t].pc = "confirm_read"
    /\ threads' = [threads EXCEPT ![t].order = Obj(t).pending, ![t].pc = "confirm_append"]
    /\ UNCHANGED <<menu, objects, table, base, rounds>>
    /\ UNCHANGED seqvars
    /\ UNCHANGED textvars

\* confirm: ctx["history"].append(order)
ConfirmAppend(t) ==
    /\ threads[t].pc = "confirm_append"
    /\ objects' = [objects EXCEPT ![threads[t].ctx].history = Append(@, threads[t].order)]
    /\ threads' = [threads EXCEPT ![t].pc = "confirm_clear"]
    /\ UNCHANGED <<menu, table, base, rounds>>
    /\ UNCHANGED seqvars
    /\ UNCHANGED textvars

\* confirm: ctx["pending"] = None
ConfirmClear(t) ==
    /\ threads[t].pc = "confirm_clear"
    /\ objects' = [objects EXCEPT ![threads[t].ctx].pending = None]
    /\ threads' = [threads EXCEPT ![t].pc = "save"]
    /\ UNCHANGED <<menu, table, base, rounds>>
    /\ UNCHANGED seqvars
    /\ UNCHANGED textvars

\* order flow: one iteration of "for o in items", reading prefs.get("vegetarian")
OrderScan(t) ==
    /\ threads[t].pc = "order_scan"
    /\ LET items == threads[t].parsed.items
           n == threads[t].i
       IN  threads' = [threads EXCEPT
                          ![t].conflicts = IF IsConflict(Obj(t).preferences, items[n])
                                           THEN Append(@, items[n]) ELSE @,
                          ![t].i = n + 1,
                          ![t].pc = IF n = Len(items) THEN "order_write" ELSE "order_scan"]
    /\ UNCHANGED <<menu, objects, table, base, rounds>>
    /\ UNCHANGED seqvars
    /\ UNCHANGED textvars

\* order flow: the branch on the collected conflicts / unavailable, and ctx["pending"] = ...
OrderWrite(t) ==
    /\ threads[t].pc = "order_write"
    /\ LET items == threads[t].parsed.items
           r == order_outcome(Obj(t), items, threads[t].conflicts, unavailable_of(items), ConcSession)
       IN  IF r.out = Raised
           THEN /\ threads' = [threads EXCEPT ![t].pc = "done", ![t].out = Raised]
                /\ UNCHANGED objects
           ELSE /\ objects' = [objects EXCEPT ![threads[t].ctx].pending = r.ctx.pending]
                /\ threads' = [threads EXCEPT ![t].pc = "save", ![t].out = r.out]
    /\ UNCHANGED <<menu, table, base, rounds>>
    /\ UNCHANGED seqvars
    /\ UNCHANGED textvars

\* _save_session: self.sessions[session_id] = ctx; the worker then goes on to the read of ctx
\* for its ChatResponse, or returns at once when the response reads nothing of ctx
Save(t) ==
    /\ threads[t].pc = "save"
    /\ table' = (ConcSession :> threads[t].ctx) @@ table
    /\ LET intent == threads[t].parsed.intent
           reads == \/ intent \in {"set_preference", "confirm"}
                    \/ intent = "order_food" /\ "pending" \in DOMAIN threads[t].out.context
       IN  threads' = [threads EXCEPT
                          ![t].pc = IF reads THEN "respond" ELSE "done",
                          ![t].out = IF intent = "cancel" THEN run_cancel(Obj(t), ConcSession).out
                                     ELSE @]
    /\ UNCHANGED <<menu, objects, base, rounds>>
    /\ UNCHANGED seqvars
    /\ UNCHANGED textvars

\* back in run after _save_session: the ChatResponse whose context reads ctx["preferences"],
\* ctx["history"] or ctx["pending"] as they are now
Respond(t) ==
    /\ threads[t].pc = "respond"
    /\ LET intent == threads[t].parsed.intent
           out == IF intent = "set_preference"
                      THEN run_set_preference(Obj(t), threads[t].parsed, ConcSession).out
                  ELSE IF intent = "confirm"
                      THEN ChatResponse(ConcSession, [text |-> "Order placed. Thank you!"], "confirm")
                           @@ [context |-> [history |-> Obj(t).history]]
                  ELSE [threads[t].out EXCEPT !.context.pending = Obj(t).pending]
       IN  threads' = [threads EXCEPT ![t].pc = "done", ![t].out = out]
    /\ UNCHANGED <<menu, objects, table, base, rounds>>
    /\ UNCHANGED seqvars
    /\ UNCHANGED textvars

NextConc ==
    \/ \E m1 \in ConcMessages, m2 \in ConcMessages : Submit(m1, m2)
    \/ \E t \in Threads : LoadCheck(t)
    \/ \E t \in Threads : LoadCreate(t)
    \/ \E t \in Threads : LoadGet(t)
    \/ \E t \in Threads : PrefSet(t)
    \/ \E t \in Threads : CancelWrite(t)
    \/ \E t \in Threads : ConfirmCheck(t)
    \/ \E t \in Threads : ConfirmRead(t)
    \/ \E t \in Threads : ConfirmAppend(t)
    \/ \E t \in Threads : ConfirmClear(t)
    \/ \E t \in Threads : OrderScan(t)
    \/ \E t \in Threads : OrderWrite(t)
    \/ \E t \in Threads : Save(t)
    \/ \E t \in Threads : Respond(t)

SpecConc == Init /\ [][NextConc]_vars

(***************************************************************************)
(* Properties                                                              *)
(***************************************************************************)
\* the last turn was a turn of this intent
LastIntentIs(intent) == last # NoTurn /\ last.parsed.intent = intent

\* the session of the last turn, as the turn left it
After == sessions[last.session_id]

\* the ChatResponse of the last turn (status 200)
Body == last.response.body

\* the items of the last turn that clash with the vegetarian preference held before the turn
ClaimConflicts ==
    SelectSeq(last.parsed.items,
              LAMBDA o : /\ "vegetarian" \in DOMAIN last.before.preferences
                         /\ last.before.preferences["vegetarian"]
                         /\ Range(o.tags) \cap {<<"n","o","n","-","v","e","g">>, <<"c","h","i","c","k","e","n">>, <<"b","e","e","f">>, <<"p","o","r","k">>, <<"f","i","s","h">>, <<"e","g","g">>} # {})

\* the items of the last turn that are out of stock
ClaimUnavailable == SelectSeq(last.parsed.items, LAMBDA o : ~o.available)

\* the sum of prep_time_min over items, a missing one counting as 0, whatever the quantities
RECURSIVE ClaimPrepSum(_)
ClaimPrepSum(items) ==
    IF items = <<>> THEN 0
    ELSE (IF Head(items).prep_time_min = None THEN 0 ELSE Head(items).prep_time_min.int)
         + ClaimPrepSum(Tail(items))

\* C1: a confirm turn on a session with a pending order appends exactly that order to the
\* session's history (length + 1) and leaves pending empty
C1_ConfirmPlacesPending ==
    (LastIntentIs("confirm") /\ last.before.pending # None) =>
        /\ After.history = Append(last.before.history, last.before.pending)
        /\ Len(After.history) = Len(last.before.history) + 1
        /\ After.pending = None

\* a confirm turn has just placed an order that order_food had set with an ETA
C1_Witness ==
    /\ LastIntentIs("confirm")
    /\ last.before.pending # None
    /\ "eta_min" \in DOMAIN last.before.pending
    /\ Len(After.history) = 1

\* C2: a confirm turn on a session with no pending order leaves history, pending and
\* preferences as they were and answers "Nothing to confirm."
C2_ConfirmWithoutPending ==
    (LastIntentIs("confirm") /\ last.before.pending = None) =>
        /\ After = last.before
        /\ last.response.status = 200
        /\ Body.reply = [text |-> "Nothing to confirm."]
        /\ Body.intent = "confirm"

\* a confirm turn with nothing pending, right after an earlier confirm placed an order
C2_Witness ==
    /\ LastIntentIs("confirm")
    /\ last.before.pending = None
    /\ last.before.history # <<>>
    /\ After.history = last.before.history

\* C3: a set_preference turn carrying d leaves preferences[d] true, and no later step of any
\* kind removes or falsifies a preference of any session
C3_PreferencesPersist ==
    [][/\ \A s \in DOMAIN sessions : \A d \in DOMAIN sessions[s].preferences :
              sessions[s].preferences[d] =>
                  /\ s \in DOMAIN sessions'
                  /\ d \in DOMAIN sessions'[s].preferences
                  /\ sessions'[s].preferences[d]
       /\ (turns' # turns /\ last'.parsed.intent = "set_preference") =>
              \A d \in Range(last'.parsed.dietary) :
                  /\ d \in DOMAIN sessions'[last'.session_id].preferences
                  /\ sessions'[last'.session_id].preferences[d]]_vars

\* a preference set in an earlier turn is still there after a later turn of another intent
C3_Witness ==
    /\ last # NoTurn
    /\ last.parsed.intent \in {"cancel", "confirm", "order_food", "greeting", "clarify", "unknown"}
    /\ "vegetarian" \in DOMAIN last.before.preferences
    /\ "vegetarian" \in DOMAIN After.preferences
    /\ After.preferences["vegetarian"]

\* C4: a cancel turn leaves pending empty whether or not an order was pending, leaves history
\* and preferences alone, always answers with the cancellation reply, and a cancel right
\* after a cancel on the same session changes nothing
C4_CancelIdempotent ==
    [][(turns' # turns /\ last'.parsed.intent = "cancel") =>
          /\ sessions'[last'.session_id]
                 = [CtxOf(sessions, last'.session_id) EXCEPT !.pending = None]
          /\ last'.response.status = 200
          /\ last'.response.body.reply = [text |-> "Cancelled your pending request."]
          /\ last'.response.body.intent = "cancel"
          /\ (LastIntentIs("cancel") /\ last.session_id = last'.session_id) =>
                 sessions'[last'.session_id] = sessions[last'.session_id]]_vars

\* a cancel turn on an existing session that had nothing pending
C4_Witness ==
    /\ LastIntentIs("cancel")
    /\ last.existed
    /\ last.before.pending = None
    /\ After.pending = None
    /\ Body.reply = [text |-> "Cancelled your pending request."]

\* C5: on an order_food turn with items, a dietary conflict wins over unavailability: the
\* conflict reply lists exactly the conflicting items; the unavailable reply comes only with
\* no conflict and some item out of stock; both leave pending = all requested items, no eta_min
C5_ConflictBeforeAvailability ==
    (LastIntentIs("order_food") /\ last.parsed.items # <<>>) =>
        /\ ClaimConflicts # <<>> =>
              /\ last.response.status = 200
              /\ Body.intent = "confirm"
              /\ Get(Body, "suggested_actions", None) = <<"replace_item", "remove_item">>
              /\ Get(Body, "context", None) = [conflicts |-> ClaimConflicts]
              /\ After.pending = [items |-> last.parsed.items]
        /\ (ClaimConflicts = <<>> /\ ClaimUnavailable # <<>>) =>
              /\ last.response.status = 200
              /\ Body.intent = "clarify"
              /\ Get(Body, "suggested_actions", None) = <<"offer_alternatives">>
              /\ After.pending = [items |-> last.parsed.items]
        /\ (/\ last.response.status = 200
            /\ Get(Body, "suggested_actions", None) = <<"offer_alternatives">>) =>
              (ClaimConflicts = <<>> /\ ClaimUnavailable # <<>>)

\* an order with both a conflicting item and an out-of-stock item got the conflict reply
C5_Witness ==
    /\ LastIntentIs("order_food")
    /\ ClaimConflicts # <<>>
    /\ ClaimUnavailable # <<>>
    /\ \E n \in 1..Len(ClaimUnavailable) : ClaimUnavailable[n] \notin Range(ClaimConflicts)
    /\ Body.intent = "confirm"

\* C6: on an order_food turn with no conflict and nothing out of stock, pending.eta_min is the
\* sum of prep_time_min over the matched items (missing = 0) whatever the quantity ("2 x fries"
\* with prep_time_min 10 gives 10), and the reply is the confirm_request with confirm/modify/cancel
C6_EtaIgnoresQuantity ==
    (/\ LastIntentIs("order_food")
     /\ last.parsed.items # <<>>
     /\ ClaimConflicts = <<>>
     /\ ClaimUnavailable = <<>>) =>
        /\ last.response.status = 200
        /\ After.pending = [items |-> last.parsed.items, eta_min |-> ClaimPrepSum(last.parsed.items)]
        /\ Body.intent = "confirm_request"
        /\ Get(Body, "suggested_actions", None) = <<"confirm", "modify", "cancel">>
        /\ last.request.message = <<"2"," ","x"," ","f","r","i","e","s">> =>
              /\ Len(last.parsed.items) = 1
              /\ last.parsed.items[1].quantity = 2
              /\ After.pending.eta_min = 10

\* three units each of fries (10), tea (no prep time) and chicken sandwich (15): ETA 25
C6_Witness ==
    /\ LastIntentIs("order_food")
    /\ Len(last.parsed.items) = 3
    /\ \A n \in 1..3 : last.parsed.items[n].quantity = 3
    /\ \E n \in 1..3 : last.parsed.items[n].prep_time_min = None
    /\ After.pending # None
    /\ "eta_min" \in DOMAIN After.pending
    /\ After.pending.eta_min = 25

\* C7: every item of the parser's order_food result, of a pending order and of a placed order
\* has quantity >= 1
C7_QuantityPositive ==
    /\ last # NoTurn => \A n \in 1..Len(last.parsed.items) : last.parsed.items[n].quantity >= 1
    /\ \A s \in DOMAIN sessions :
          /\ sessions[s].pending # None =>
                \A n \in 1..Len(sessions[s].pending.items) : sessions[s].pending.items[n].quantity >= 1
          /\ \A h \in 1..Len(sessions[s].history) :
                \A n \in 1..Len(sessions[s].history[h].items) :
                    sessions[s].history[h].items[n].quantity >= 1

\* C8: every turn ends with a ChatResponse carrying a reply, never with an exception that the
\* transport turns into HTTP 500
C8_AlwaysReplies ==
    last # NoTurn =>
        /\ last.response.status = 200
        /\ "reply" \in DOMAIN last.response.body

\* the session after the two requests of the round ran one after the other, first then second
Sequential(first, second) ==
    RunCtx(RunCtx(base, Parse(menu, first), ConcSession).ctx, Parse(menu, second), ConcSession).ctx

\* C9: when two concurrent requests on one session have both returned, the session's pending
\* and history are those of running the two requests in one of the two sequential orders; two
\* concurrent confirms of one pending order append exactly one history entry
C9_Serializable ==
    (\A t \in Threads : threads[t].pc = "done") =>
        LET final == objects[table[ConcSession]]
            a == Sequential(threads[1].message, threads[2].message)
            b == Sequential(threads[2].message, threads[1].message)
        IN  /\ \/ final.pending = a.pending /\ final.history = a.history
               \/ final.pending = b.pending /\ final.history = b.history
            /\ (/\ \A t \in Threads : threads[t].parsed.intent = "confirm"
                /\ base.pending # None) =>
                   Len(final.history) = Len(base.history) + 1

\* C10: a request without session_id is served in a session that did not exist before, with
\* empty preferences, no pending order and empty history
C10_FreshGuestSession ==
    (last # NoTurn /\ NoSessionId(last.request)) =>
        /\ ~last.existed
        /\ last.before = NewContext

\* C11: match_items never returns two OrderItems of one identity (menu_id, or name when there
\* is no menu_id), and its result follows the order of the catalog: of any two items returned,
\* the earlier one comes from an earlier catalog record than the later one
C11_MatchDistinctInCatalogOrder ==
    /\ \A i, j \in 1..Len(matched) :
          i # j => UniqKey(matched[i]) # UniqKey(matched[j])
    /\ \A i, j \in 1..Len(matched) :
          i < j => \E p, q \in 1..Len(menu) :
                      /\ p < q
                      /\ OrderItem(menu[p]) = matched[i]
                      /\ OrderItem(menu[q]) = matched[j]

\* C12: matching is monotone under synonym expansion: for every synonym key the text contains,
\* if a catalog record carries the canonical name the key maps to, match_items returns the item
\* of that record's identity, whichever other keys the text contains as well
C12_SynonymMonotone ==
    \A n \in 1..Len(synonyms) :
        Contains(utterance, synonyms[n][1]) =>
            \A p \in 1..Len(menu) :
                Get(menu[p], "name", <<>>) = synonyms[n][2] =>
                    \E i \in 1..Len(matched) : UniqKey(matched[i]) = ItemId(menu[p])

\* the message as the parser's rules see it
Trimmed == Lower(Strip(utterance))

\* rule n of the parser's cascade is satisfied by the text
RuleHolds(n) ==
    CASE n = 1 -> SearchWord(Trimmed, GreetingWords)
      [] n = 2 -> SearchWord(Trimmed, CancelWords)
      [] n = 3 -> Trimmed \in ConfirmWords
      [] n = 4 -> \E k \in PreferenceTriggers : Contains(Trimmed, k)
      [] n = 5 -> QtyMatch(Trimmed) # None /\ match_items(menu, QtyMatch(Trimmed).rest) # <<>>
      [] n = 6 -> SearchWord(Trimmed, OrderVerbs) \/ Len(Split(Trimmed)) <= 3
      [] n = 7 -> TRUE

\* the intent rule n returns
RuleIntent(n) ==
    CASE n = 1 -> "greeting"
      [] n = 2 -> "cancel"
      [] n = 3 -> "confirm"
      [] n = 4 -> "set_preference"
      [] n = 5 -> "order_food"
      [] n = 6 -> IF match_items(menu, utterance) # <<>> THEN "order_food" ELSE "clarify"
      [] n = 7 -> "unknown"

\* the lowest-numbered satisfied rule
FirstRule == CHOOSE n \in 1..7 : RuleHolds(n) /\ \A m \in 1..(n - 1) : ~RuleHolds(m)

\* C13: parse is a first-match-wins cascade: the intent returned for a message is that of the
\* lowest-numbered satisfied rule among greeting, cancel, confirm, set_preference, quantified
\* order (with at least one match), general order (order_food or clarify) and unknown; the
\* result is a function of the catalog and the message
C13_FirstRuleWins ==
    /\ understood.intent = RuleIntent(FirstRule)
    /\ understood = parse(menu, utterance)

\* a message satisfying both the greeting and the cancel rule was taken as a greeting
C13_Witness ==
    /\ RuleHolds(1)
    /\ RuleHolds(2)
    /\ understood.intent = "greeting"

\* C14: a turn whose parsed intent is greeting, clarify or unknown changes nothing: the
\* session's preferences, pending order and history after the turn are those before it
C14_NoChangeOnGreetingClarifyUnknown ==
    (last # NoTurn /\ last.parsed.intent \in {"greeting", "clarify", "unknown"}) =>
        /\ After.preferences = last.before.preferences
        /\ After.pending = last.before.pending
        /\ After.history = last.before.history

\* a greeting on a session holding preferences and a pending order left both in place
C14_Witness ==
    /\ LastIntentIs("greeting")
    /\ last.before.pending # None
    /\ last.before.preferences # <<>>
    /\ After.pending = last.before.pending
    /\ After.preferences = last.before.preferences

\* C15: the loaded catalog holds no two records of one identity (id, or name when there is no
\* id), so the matcher never iterates over two entries with one identity
C15_CatalogIdsUnique ==
    \A p, q \in 1..Len(menu) : p # q => ItemId(menu[p]) # ItemId(menu[q])

\* C16: the dietary-conflict and availability checks gate order placement: no step leaves an
\* out-of-stock item in any session's history, and a confirm turn that follows, on the same
\* session, an order_food turn answered with the conflict or the unavailable reply places nothing
C16_ChecksGatePlacement ==
    [][/\ \A s \in DOMAIN sessions' : \A h \in 1..Len(sessions'[s].history) :
              \A n \in 1..Len(sessions'[s].history[h].items) :
                  sessions'[s].history[h].items[n].available
       /\ (/\ LastIntentIs("order_food")
           /\ ClaimConflicts # <<>> \/ ClaimUnavailable # <<>>
           /\ turns' # turns
           /\ last'.session_id = last.session_id
           /\ last'.parsed.intent = "confirm") =>
              sessions'[last.session_id].history = sessions[last.session_id].history]_vars

\* C17: in a set_preference result each dietary tag is there exactly when the message contains
\* that tag's trigger phrase (vegetarian: "vegetarian" or "vegan"; no_onion: "no onion";
\* no_dairy: "no dairy" or "dairy-free"; no_nuts: "nut allergy"), and the list is not empty
C17_DietaryTriggers ==
    understood.intent = "set_preference" =>
        LET tags == Range(understood.dietary) IN
        /\ "vegetarian" \in tags <=> (Contains(Trimmed, <<"v","e","g","e","t","a","r","i","a","n">>) \/ Contains(Trimmed, <<"v","e","g","a","n">>))
        /\ "no_onion" \in tags <=> Contains(Trimmed, <<"n","o"," ","o","n","i","o","n">>)
        /\ "no_dairy" \in tags <=> (Contains(Trimmed, <<"n","o"," ","d","a","i","r","y">>) \/ Contains(Trimmed, <<"d","a","i","r","y","-","f","r","e","e">>))
        /\ "no_nuts" \in tags <=> Contains(Trimmed, <<"n","u","t"," ","a","l","l","e","r","g","y">>)
        /\ understood.dietary # <<>>

\* C18: sessions are independent and a context is created once: a turn leaves every other
\* session as it was, adds at most the session it refers to, and on a session that exists it
\* starts from the stored context (preferences stay, history only grows, pending changes only
\* on cancel, confirm and order_food); no step removes a session
C18_SessionsIndependent ==
    [][IF turns' # turns
       THEN LET sid == last'.session_id IN
            /\ \A s \in DOMAIN sessions : s # sid => s \in DOMAIN sessions' /\ sessions'[s] = sessions[s]
            /\ DOMAIN sessions' = DOMAIN sessions \cup {sid}
            /\ sid \notin DOMAIN sessions => last'.before = NewContext
            /\ sid \in DOMAIN sessions =>
                  /\ \A d \in DOMAIN sessions[sid].preferences :
                        /\ d \in DOMAIN sessions'[sid].preferences
                        /\ sessions'[sid].preferences[d] = sessions[sid].preferences[d]
                  /\ Len(sessions'[sid].history) >= Len(sessions[sid].history)
                  /\ SubSeq(sessions'[sid].history, 1, Len(sessions[sid].history)) = sessions[sid].history
                  /\ last'.parsed.intent \notin {"cancel", "confirm", "order_food"} =>
                        sessions'[sid].pending = sessions[sid].pending
       ELSE sessions' = sessions]_vars

\* two sessions exist, the other one holds a pending order, and the last turn changed its own
\* session, which it did not create
C18_Witness ==
    /\ last # NoTurn
    /\ last.existed
    /\ After # last.before
    /\ \E s \in DOMAIN sessions : s # last.session_id /\ sessions[s].pending # None

\* C19: a session's history is append-only: over every step the history before is a prefix of
\* the history after; it grows only on a confirm turn with a pending order, by exactly one
\* entry, which is that pending order; order_food, cancel and set_preference turns leave every
\* placed entry as it is
C19_HistoryAppendOnly ==
    [][\A s \in DOMAIN sessions :
          LET before == sessions[s].history
              after == sessions'[s].history
          IN  /\ s \in DOMAIN sessions'
              /\ Len(after) >= Len(before)
              /\ SubSeq(after, 1, Len(before)) = before
              /\ after # before =>
                    /\ turns' # turns
                    /\ last'.session_id = s
                    /\ last'.parsed.intent = "confirm"
                    /\ sessions[s].pending # None
                    /\ after = Append(before, sessions[s].pending)]_vars

\* a session with a placed order took a different order: the new order is pending and the
\* placed entry is as it was
C19_Witness ==
    /\ LastIntentIs("order_food")
    /\ last.before.history # <<>>
    /\ After.pending # None
    /\ After.pending.items # last.before.history[1].items
    /\ After.history = last.before.history

\* C20: pending is well-formed and single: after every step a session's pending is None or
\* holds a non-empty item list; a step that sets it is an order_food turn on that session, the
\* new pending holds exactly the items of that turn (nothing of an earlier order) and carries
\* eta_min exactly when the turn found no conflict and nothing out of stock
C20_PendingWellFormed ==
    [][\A s \in DOMAIN sessions' :
          LET p == sessions'[s].pending IN
          /\ p # None => p.items # <<>> /\ DOMAIN p \subseteq {"items", "eta_min"}
          /\ (p # None /\ (s \notin DOMAIN sessions \/ p # sessions[s].pending)) =>
                /\ turns' # turns
                /\ last'.session_id = s
                /\ last'.parsed.intent = "order_food"
          /\ (turns' # turns /\ last'.session_id = s /\ last'.parsed.intent = "order_food") =>
                /\ p # None
                /\ p.items = last'.parsed.items
                /\ "eta_min" \in DOMAIN p <=> (ClaimConflicts' = <<>> /\ ClaimUnavailable' = <<>>)]_vars

\* an order with an ETA was pending and the turn ordered something else, out of stock: pending
\* now holds the new items only, without eta_min
C20_Witness ==
    /\ LastIntentIs("order_food")
    /\ last.before.pending # None
    /\ "eta_min" \in DOMAIN last.before.pending
    /\ last.before.pending.items # last.parsed.items
    /\ After.pending = [items |-> last.parsed.items]
====
